---- MODULE Spec2Model ----
(***************************************************************************)
(* Product comparison service: the JSON-backed catalog store               *)
(* (JsonProductRepository), the Product entity's validation, and the       *)
(* comparison service (ProductService) that sits on top of the store.      *)
(*                                                                         *)
(* Text is modelled as a sequence of one-character strings, an optional    *)
(* JSON key as a sequence of length 0 (key absent) or 1 (its value), a     *)
(* UUID as a positive integer and a rating as an integer number of tenths. *)
(***************************************************************************)
EXTENDS Integers, Sequences, FiniteSets, TLC

\* ------------------------------------------------------------------ bounds
MaxRecords == 2      \* longest "products" array of a source
MaxRequest == 2      \* longest product_ids list of a batch request
MaxHttpRequests == 2 \* HTTP requests that resolve the repository dependency
MaxInstances == 2    \* JsonProductRepository instances built from one source

\* ------------------------------------------------------- field constraints
NameMaxLength == 200
DescriptionMaxLength == 2000
PriceDecimalPlaces == 2
RatingMax == 50
CurrencyLength == 3

\* ------------------------------------------------------------- identifiers
SourceIds == {1, 2}     \* identifiers written in source records
GenIds == {3, 4}        \* values uuid4() may return
UUIDs == SourceIds \cup GenIds

\* str(UUID): the canonical 36-character text of the identifier
UuidStr(u) == "00000000-0000-4000-8000-00000000000" \o ToString(u)

\* ---------------------------------------------------------------- helpers
Range(s) == {s[i] : i \in 1..Len(s)}

SeqsUpTo(S, n) == UNION {[1..k -> S] : k \in 0..n}

\* every ordering of the finite set S, as a sequence without repeats
Orderings(S) == {s \in [1..Cardinality(S) -> S] : Range(s) = S}

\* every reordering of the sequence s
Reorderings(s) ==
  {[i \in 1..Len(s) |-> s[p[i]]] : p \in Orderings(1..Len(s))}

\* ------------------------------------------------------------ Decimal(str)
Digits == {"0", "1", "2", "3", "4", "5", "6", "7", "8", "9"}

DigitVal(c) ==
  CASE c = "0" -> 0 [] c = "1" -> 1 [] c = "2" -> 2 [] c = "3" -> 3
    [] c = "4" -> 4 [] c = "5" -> 5 [] c = "6" -> 6 [] c = "7" -> 7
    [] c = "8" -> 8 [] c = "9" -> 9

RECURSIVE DigitsValue(_)
\* the integer written by the digits of s, skipping the decimal point
DigitsValue(s) ==
  IF s = <<>> THEN 0
  ELSE LET last == s[Len(s)]
           init == SubSeq(s, 1, Len(s) - 1)
       IN IF last = "." THEN DigitsValue(init)
          ELSE 10 * DigitsValue(init) + DigitVal(last)

\* Decimal(text) for the plain notation [-]digits[.digits]; any other text
\* makes the constructor raise decimal.InvalidOperation (valid = FALSE)
ParseDecimal(text) ==
  LET neg    == Len(text) > 0 /\ text[1] = "-"
      body   == IF neg THEN SubSeq(text, 2, Len(text)) ELSE text
      points == {i \in 1..Len(body) : body[i] = "."}
      ndig   == Cardinality({i \in 1..Len(body) : body[i] \in Digits})
      valid  == /\ \A i \in 1..Len(body) : body[i] \in Digits \cup {"."}
                /\ Cardinality(points) <= 1
                /\ ndig >= 1
      places == IF points = {} THEN 0
                ELSE Len(body) - (CHOOSE i \in points : TRUE)
  IN IF valid
     THEN [valid |-> TRUE, negative |-> neg,
           coefficient |-> DigitsValue(body), places |-> places]
     ELSE [valid |-> FALSE, negative |-> FALSE, coefficient |-> 0, places |-> 0]

RECURSIVE NormalizedPlaces(_, _)
\* fractional digits left once trailing zeroes are dropped
NormalizedPlaces(coefficient, places) ==
  IF places = 0 \/ coefficient % 10 # 0 THEN places
  ELSE NormalizedPlaces(coefficient \div 10, places - 1)

\* ---------------------------------------------------------------- Product
\* str.upper() of one character: a sequence, since the capital of a
\* character may be longer than the character
Upper(c) ==
  CASE c = "u" -> <<"U">> [] c = "s" -> <<"S">> [] c = "d" -> <<"D">>
    [] c = "e" -> <<"E">> [] c = "r" -> <<"R">> [] c = "a" -> <<"A">>
    [] c = "b" -> <<"B">> [] c = "ß" -> <<"S", "S">> [] OTHER -> <<c>>

RECURSIVE validate_currency_uppercase(_)
\* Product.validate_currency_uppercase: value.upper()
validate_currency_uppercase(value) ==
  IF value = <<>> THEN <<>>
  ELSE Upper(Head(value)) \o validate_currency_uppercase(Tail(value))

HttpSchemes == {"http", "https"}

\* The field constraints of Product: TRUE when Product(**data) raises
\* pydantic's ValidationError.  data.price already holds the Decimal that
\* _load_products put there.
ProductInvalidPriceGe0(data, price) ==
  \/ data.id # <<>> /\ data.id[1] \notin UUIDs
  \/ data.name = <<>>
  \/ data.name # <<>> /\ ~(Len(data.name[1]) \in 1..NameMaxLength)
  \/ data.image_url = <<>>
  \/ data.image_url # <<>> /\ ~(/\ data.image_url[1].scheme \in HttpSchemes
                               /\ data.image_url[1].host # <<>>)
  \/ data.description = <<>>
  \/ data.description # <<>>
       /\ ~(Len(data.description[1]) \in 1..DescriptionMaxLength)
  \/ data.price = <<>>
  \/ data.price # <<>>
       /\ ~(/\ ~price.negative
            /\ price.coefficient >= 0
            /\ NormalizedPlaces(price.coefficient, price.places)
                 <= PriceDecimalPlaces)
  \/ data.rating = <<>>
  \/ data.rating # <<>> /\ ~(data.rating[1] \in 0..RatingMax)
  \/ data.currency # <<>> /\ Len(data.currency[1]) # CurrencyLength

ProductInvalid(data, price) ==
  \/ data.id # <<>> /\ data.id[1] \notin UUIDs
  \/ data.name = <<>>
  \/ data.name # <<>> /\ ~(Len(data.name[1]) \in 1..NameMaxLength)
  \/ data.image_url = <<>>
  \/ data.image_url # <<>> /\ ~(/\ data.image_url[1].scheme \in HttpSchemes
                               /\ data.image_url[1].host # <<>>)
  \/ data.description = <<>>
  \/ data.description # <<>>
       /\ ~(Len(data.description[1]) \in 1..DescriptionMaxLength)
  \/ data.price = <<>>
  \/ data.price # <<>>
       /\ ~(/\ ~price.negative
            /\ price.coefficient > 0
            /\ NormalizedPlaces(price.coefficient, price.places)
                 <= PriceDecimalPlaces)
  \/ data.rating = <<>>
  \/ data.rating # <<>> /\ ~(data.rating[1] \in 0..RatingMax)
  \/ data.currency # <<>> /\ Len(data.currency[1]) # CurrencyLength

\* Product(**data) for data that satisfies the constraints; generated is the
\* value default_factory=uuid4 returns when the id key is absent
ProductNoCurrencyDefault(data, price, generated) ==
  [id             |-> IF data.id = <<>> THEN generated ELSE data.id[1],
   name           |-> data.name[1],
   image_url      |-> data.image_url[1],
   description    |-> data.description[1],
   price          |-> [negative |-> price.negative,
                       coefficient |-> price.coefficient,
                       places |-> price.places],
   rating         |-> data.rating[1],
   specifications |-> IF data.specifications = <<>> THEN {}
                      ELSE data.specifications[1],
   currency       |-> IF data.currency = <<>> THEN <<>>
                      ELSE validate_currency_uppercase(data.currency[1])]

Product(data, price, generated) ==
  [id             |-> IF data.id = <<>> THEN generated ELSE data.id[1],
   name           |-> data.name[1],
   image_url      |-> data.image_url[1],
   description    |-> data.description[1],
   price          |-> [negative |-> price.negative,
                       coefficient |-> price.coefficient,
                       places |-> price.places],
   rating         |-> data.rating[1],
   specifications |-> IF data.specifications = <<>> THEN {}
                      ELSE data.specifications[1],
   currency       |-> IF data.currency = <<>> THEN <<"U", "S", "D">>
                      ELSE validate_currency_uppercase(data.currency[1])]

\* --------------------------------------------------------- source records
WellFormed(id, name) ==
  [kind           |-> "object",
   id             |-> id,
   name           |-> <<name>>,
   image_url      |-> <<[scheme |-> "https", host |-> <<"x">>, path |-> <<"/", "1">>]>>,
   description    |-> <<<<"d">>>>,
   price          |-> <<<<"1", "0", ".", "0", "0">>>>,
   rating         |-> <<40>>,
   specifications |-> <<>>,
   currency       |-> <<>>]

NonObject ==
  [kind |-> "number", id |-> <<>>, name |-> <<>>, image_url |-> <<>>,
   description |-> <<>>, price |-> <<>>, rating |-> <<>>,
   specifications |-> <<>>, currency |-> <<>>]

\* The records a source is assembled from: two well-formed records that share
\* identifier 1, one with identifier 2, one without an id key, one whose
\* price violates gt=0, one whose price is not a number, and an array
\* element that is not an object.
RecordPool ==
  { WellFormed(<<1>>, <<"A">>),
    WellFormed(<<1>>, <<"B">>),
    WellFormed(<<2>>, <<"C">>),
    WellFormed(<<>>, <<"N">>),
    [WellFormed(<<2>>, <<"I">>) EXCEPT !.price = <<<<"-", "1", "0", ".", "0", "0">>>>],
    [WellFormed(<<2>>, <<"P">>) EXCEPT !.price = <<<<"a", "b", "c">>>>],
    NonObject }

\* what the body of the per-record try block does with one array element
ElementOutcome(element) ==
  IF element.kind # "object" THEN "TypeError"
  ELSE IF element.price # <<>> /\ ~ParseDecimal(element.price[1]).valid
       THEN "InvalidOperation"
  ELSE IF ProductInvalid(element,
            IF element.price = <<>> THEN ParseDecimal(<<>>)
            ELSE ParseDecimal(element.price[1]))
       THEN "ValidationError"
  ELSE "ok"

NeedsGeneratedId(element) ==
  ElementOutcome(element) = "ok" /\ element.id = <<>>

SourceKinds ==
  {"missing", "unparsable", "not_object", "no_products_key",
   "products_not_list", "ok"}

Sources ==
  {[kind |-> k, products |-> <<>>] : k \in SourceKinds \ {"ok"}}
  \cup
  {[kind |-> "ok", products |-> ps] : ps \in
     {s \in SeqsUpTo(RecordPool, MaxRecords) :
        Cardinality({i \in 1..Len(s) : NeedsGeneratedId(s[i])})
          <= Cardinality(GenIds)}}

\* a text of n characters
TextOfLength(n) == [i \in 1..n |-> "x"]

\* Records at and beyond the limit of each field constraint of Product, for
\* the specification that exercises the load alone.
ConstraintPool ==
  { WellFormed(<<1>>, TextOfLength(NameMaxLength)),
    WellFormed(<<2>>, TextOfLength(NameMaxLength + 1)),
    WellFormed(<<1>>, <<>>),
    [WellFormed(<<2>>, <<"D">>) EXCEPT
       !.description = <<TextOfLength(DescriptionMaxLength)>>],
    [WellFormed(<<1>>, <<"E">>) EXCEPT
       !.description = <<TextOfLength(DescriptionMaxLength + 1)>>],
    [WellFormed(<<2>>, <<"F">>) EXCEPT !.description = <<<<>>>>],
    [WellFormed(<<1>>, <<"G">>) EXCEPT !.price = <<<<"0">>>>],
    [WellFormed(<<2>>, <<"H">>) EXCEPT !.price = <<<<"9", ".", "9", "9", "9">>>>],
    [WellFormed(<<1>>, <<"J">>) EXCEPT !.price = <<<<"9", ".", "9", "9">>>>],
    [WellFormed(<<2>>, <<"K">>) EXCEPT !.price = <<<<"1", "0", ".", "0", "0", "0">>>>],
    [WellFormed(<<1>>, <<"L">>) EXCEPT !.rating = <<0>>],
    [WellFormed(<<2>>, <<"M">>) EXCEPT !.rating = <<RatingMax>>],
    [WellFormed(<<1>>, <<"O">>) EXCEPT !.rating = <<RatingMax + 1>>],
    [WellFormed(<<2>>, <<"Q">>) EXCEPT !.rating = <<-1>>],
    [WellFormed(<<1>>, <<"R">>) EXCEPT !.currency = <<<<"u", "s", "d">>>>],
    [WellFormed(<<2>>, <<"S">>) EXCEPT !.currency = <<<<"E", "U", "R">>>>],
    [WellFormed(<<1>>, <<"T">>) EXCEPT !.currency = <<<<"u", "s">>>>],
    [WellFormed(<<2>>, <<"U">>) EXCEPT !.currency = <<<<"u", "s", "d", "e">>>>],
    [WellFormed(<<1>>, <<"V">>) EXCEPT !.currency = <<<<"1", "2", "3">>>>],
    [WellFormed(<<2>>, <<"W">>) EXCEPT !.currency = <<<<"a", "ß", "b">>>>],
    [WellFormed(<<1>>, <<"X">>) EXCEPT !.image_url = <<>>],
    WellFormed(<<>>, <<"N">>) }

LoadSources ==
  {[kind |-> "ok", products |-> ps] : ps \in
     {s \in SeqsUpTo(ConstraintPool, MaxRecords) :
        Cardinality({i \in 1..Len(s) : NeedsGeneratedId(s[i])})
          <= Cardinality(GenIds)}}

\* ------------------------------------------------------------------ state
VARIABLES
  source,           \* the data file: how it parses and its "products" array
  repoState,        \* "unbuilt", "ready" (constructor returned) or "failed"
  _products,        \* JsonProductRepository._products, in insertion order
  initError,        \* the exception the constructor raised, if any
  call,             \* the service operation called last and its argument
  repositoryCalls,  \* the repository calls that operation made, with results
  result,           \* how that operation ended: returned value or exception
  cache,            \* lru_cache of get_product_repository: <<>> or <<instance>>
  pc,               \* where each HTTP request is in get_product_repository
  got,              \* what the dependency gave each request: instance, -1 raised
  attempts,         \* the JsonProductRepository constructions so far, in order
  sawFailure,       \* per request: a construction had failed before it looked up
  response          \* the HTTP response to the last request to the API

depVars == <<cache, pc, got, attempts, sawFailure>>

vars == <<source, repoState, _products, initError, call, repositoryCalls, result,
          cache, pc, got, attempts, sawFailure, response>>

HttpRequests == 1..MaxHttpRequests

NoError == [type |-> "none", message |-> <<>>]
NoCall == [op |-> "none", product_ids |-> <<>>]
\* no request has been answered; body holds the JSON of a 2xx response,
\* error the "error" object of the others
NoResponse ==
  [request |-> "none", status_code |-> 0, body |-> <<>>,
   error |-> [type |-> "none", message |-> <<>>, details |-> <<>>]]

NoResult ==
  [kind |-> "none", exc |-> "none", message |-> <<>>, product_id |-> <<>>,
   value |-> <<>>]

Returns(value) ==
  [kind |-> "return", exc |-> "none", message |-> <<>>, product_id |-> <<>>,
   value |-> value]

Raises(exc, message, product_id) ==
  [kind |-> "raise", exc |-> exc, message |-> message,
   product_id |-> product_id, value |-> <<>>]

\* ProductNotFoundException(product_id)
ProductNotFoundException(product_id) ==
  Raises("ProductNotFoundException",
         <<"Product with ID '">> \o product_id \o <<"' not found">>,
         product_id)

\* separator.join(parts)
RECURSIVE Join(_, _)
Join(parts, separator) ==
  IF parts = <<>> THEN <<>>
  ELSE IF Len(parts) = 1 THEN <<parts[1]>>
  ELSE <<parts[1], separator>> \o Join(Tail(parts), separator)

\* ------------------------------------------------- JsonProductRepository
\* self._products[product.id] = product on an insertion-ordered dict: a new
\* key is appended, an existing key keeps its place and takes the new value
DictSetFirstWins(index, product) ==
  IF \E j \in 1..Len(index) : index[j].id = product.id
  THEN index
  ELSE Append(index, product)

DictSetAlwaysAppend(index, product) == Append(index, product)

DictSet(index, product) ==
  IF \E j \in 1..Len(index) : index[j].id = product.id
  THEN [j \in 1..Len(index) |->
          IF index[j].id = product.id THEN product ELSE index[j]]
  ELSE Append(index, product)

RECURSIVE LoadFrom(_, _, _, _)
\* the for loop of _load_products from element idx on; generated holds the
\* values the uuid4() calls still to come will return
LoadFrom(idx, products_data, index, generated) ==
  IF idx > Len(products_data) THEN [raised |-> "none", index |-> index]
  ELSE
    LET element == products_data[idx]
        outcome == ElementOutcome(element)
    IN CASE outcome = "ok" ->
              LET price   == ParseDecimal(element.price[1])
                  fresh   == element.id = <<>>
                  product == Product(element, price,
                                     IF fresh THEN Head(generated) ELSE 0)
              IN LoadFrom(idx + 1, products_data, DictSet(index, product),
                          IF fresh THEN Tail(generated) ELSE generated)
         [] outcome = "ValidationError" ->
              LoadFrom(idx + 1, products_data, index, generated)
         [] OTHER ->
              \* not a ValidationError: leaves the loop, caught by the
              \* outer "except Exception"
              [raised |-> outcome, index |-> index]

\* the try body of _load_products (lines 69-108): the exception that leaves
\* it ("none" when it runs to its end) and the dict it has filled by then
TryBody(src, generated) ==
  CASE src.kind = "missing" ->
         [type |-> "RepositoryException",
          message |-> <<"Data file not found: ", "path">>, index |-> <<>>]
    [] src.kind = "unparsable" ->
         [type |-> "JSONDecodeError",
          message |-> <<"JSONDecodeError">>, index |-> <<>>]
    [] src.kind \in {"not_object", "no_products_key"} ->
         [type |-> "InvalidProductDataException",
          message |-> <<"Invalid JSON structure: expected {'products': [...]}">>,
          index |-> <<>>]
    [] src.kind = "products_not_list" ->
         [type |-> "InvalidProductDataException",
          message |-> <<"Invalid JSON structure: 'products' must be an array">>,
          index |-> <<>>]
    [] OTHER ->
         LET loaded == LoadFrom(1, src.products, <<>>, generated)
         IN [type |-> loaded.raised, message |-> <<loaded.raised>>,
             index |-> loaded.index]

\* the except clauses of _load_products (lines 110-121), tried in order: the
\* exception that leaves the method for the one that left the try body
ExceptClausesDecodeAsInvalidData(raised) ==
  CASE raised.type = "none" -> NoError
    [] raised.type \in {"JSONDecodeError", "InvalidProductDataException"} ->
         [type |-> "InvalidProductDataException", message |-> raised.message]
    [] raised.type = "RepositoryException" ->
         [type |-> raised.type, message |-> raised.message]
    [] OTHER ->
         [type |-> "RepositoryException",
          message |-> <<"Failed to load products: ">> \o raised.message]

ExceptClausesRewrapAll(raised) ==
  CASE raised.type = "none" -> NoError
    [] raised.type = "JSONDecodeError" ->
         [type |-> "RepositoryException",
          message |-> <<"Invalid JSON format in ", "path", ": ">>
                        \o raised.message]
    [] OTHER ->
         [type |-> "RepositoryException",
          message |-> <<"Failed to load products: ">> \o raised.message]

ExceptClauses(raised) ==
  CASE raised.type = "none" -> NoError
    [] raised.type = "JSONDecodeError" ->
         [type |-> "RepositoryException",
          message |-> <<"Invalid JSON format in ", "path", ": ">>
                        \o raised.message]
    [] raised.type \in {"InvalidProductDataException", "RepositoryException"} ->
         [type |-> raised.type, message |-> raised.message]
    [] OTHER ->
         [type |-> "RepositoryException",
          message |-> <<"Failed to load products: ">> \o raised.message]

\* _load_products: the exception it raises (NoError when it returns) and the
\* dict it has filled by then
_load_products(src, generated) ==
  LET raised == TryBody(src, generated)
  IN [error |-> ExceptClauses(raised), index |-> raised.index]

\* the values the uuid4() calls of one load may return: pairwise distinct
GeneratedChoices == Orderings(GenIds)

\* JsonProductRepository.find_by_id: <<>> stands for None
find_by_id_any(index, product_id) ==
  IF index = <<>> THEN <<>> ELSE <<index[1]>>

find_by_id(index, product_id) ==
  IF \E j \in 1..Len(index) : index[j].id = product_id
  THEN <<index[CHOOSE j \in 1..Len(index) : index[j].id = product_id]>>
  ELSE <<>>

\* the requested products in the order the index holds them
find_by_ids_index_order(index, product_ids) ==
  LET keep == {j \in 1..Len(index) : index[j].id \in Range(product_ids)}
      nth(k) == CHOOSE j \in keep : Cardinality({i \in keep : i < j}) = k - 1
  IN [k \in 1..Cardinality(keep) |-> index[nth(k)]]

RECURSIVE find_by_ids(_, _)
\* JsonProductRepository.find_by_ids
find_by_ids(index, product_ids) ==
  IF product_ids = <<>> THEN <<>>
  ELSE find_by_id(index, Head(product_ids))
         \o find_by_ids(index, Tail(product_ids))

\* ProductRepositoryPort.find_by_ids: the port promises the found products
\* and no order; the JSON adapter's answer is one of them
PortFindByIds(index, product_ids) == Reorderings(find_by_ids(index, product_ids))

\* JsonProductRepository.find_all: list(self._products.values())
find_all(index) == index

\* a membership test that looks at the first key only
exists_first_key(index, product_id) ==
  index # <<>> /\ index[1].id = product_id

\* JsonProductRepository.exists: product_id in self._products
exists(index, product_id) == \E j \in 1..Len(index) : index[j].id = product_id

\* JsonProductRepository.count: len(self._products), the number of keys
count(index) == Cardinality({index[j].id : j \in 1..Len(index)})

\* a lookup that moves the product it finds to the end of the dict
after_get_move_to_end(index, product_id) ==
  LET kept  == {j \in 1..Len(index) : index[j].id # product_id}
      found == {j \in 1..Len(index) : index[j].id = product_id}
      RECURSIVE Filter(_, _)
      Filter(j, S) == IF j > Len(index) THEN <<>>
                      ELSE (IF j \in S THEN <<index[j]>> ELSE <<>>)
                             \o Filter(j + 1, S)
  IN Filter(1, kept) \o Filter(1, found)

\* self._products.get(product_id) reads the dict: the dict after the call
after_pop(index, product_id) ==
  LET keep == {j \in 1..Len(index) : index[j].id # product_id}
      nth(k) == CHOOSE j \in keep : Cardinality({i \in keep : i < j}) = k - 1
  IN [k \in 1..Cardinality(keep) |-> index[nth(k)]]

after_get(index, product_id) == index

\* --------------------------------------------------------- ProductService
\* "not product_ids"
IsEmptyNever(product_ids) == FALSE

IsEmpty(product_ids) == product_ids = <<>>

\* a uniqueness check that lets every list through to the repository
HasDuplicatesNever(product_ids) == FALSE

\* "len(product_ids) != len(set(product_ids))"
HasDuplicatesWrongComparison(product_ids) ==
  Len(product_ids) < Cardinality(Range(product_ids))

HasDuplicates(product_ids) ==
  Len(product_ids) # Cardinality(Range(product_ids))

\* "found_ids = {product.id for product in products}"
found_ids(products) == {products[i].id : i \in 1..Len(products)}

\* "missing_ids = set(product_ids) - found_ids"
missing_ids_first_only(product_ids, products) ==
  IF product_ids # <<>> /\ product_ids[1] \notin found_ids(products)
  THEN {product_ids[1]} ELSE {}

missing_ids_all_requested(product_ids, products) ==
  IF Range(product_ids) \ found_ids(products) = {} THEN {}
  ELSE Range(product_ids)

missing_ids(product_ids, products) ==
  Range(product_ids) \ found_ids(products)

\* "id_to_product = {product.id: product for product in products}" followed
\* by "[id_to_product[pid] for pid in product_ids]"; a pid that is not a key
\* raises KeyError
ordered_products_as_found(product_ids, products) ==
  [raised |-> "none", value |-> products]

ordered_products(product_ids, products) ==
  IF \E i \in 1..Len(product_ids) : product_ids[i] \notin found_ids(products)
  THEN [raised |-> "KeyError", value |-> <<>>]
  ELSE [raised |-> "none",
        value |-> [i \in 1..Len(product_ids) |->
          LET last == CHOOSE j \in 1..Len(products) :
                        /\ products[j].id = product_ids[i]
                        /\ \A k \in (j + 1)..Len(products) :
                             products[k].id # product_ids[i]
          IN products[last]]]

\* ProductService.get_products_for_comparison after find_by_ids returned
\* products; iteration is the order in which the set missing_ids is iterated
\* by the join
compare_found(product_ids, products, iteration) ==
  IF missing_ids(product_ids, products) # {}
  THEN ProductNotFoundException(
         <<"Products not found: ">>
           \o Join([i \in 1..Len(iteration) |-> UuidStr(iteration[i])], ", "))
  ELSE LET ordered == ordered_products(product_ids, products)
       IN IF ordered.raised # "none"
          THEN Raises(ordered.raised, <<>>, <<>>)
          ELSE Returns(ordered.value)

\* ProductService.get_product_by_id after find_by_id returned found
get_product_by_id_result(product_id, found) ==
  IF found = <<>>
  THEN ProductNotFoundException(<<UuidStr(product_id)>>)
  ELSE Returns(found)

\* ---------------------------------------------------------------- actions
\* no request has resolved get_product_repository yet: the cache is empty
DependenciesInit ==
  /\ cache = <<>>
  /\ pc = [r \in HttpRequests |-> "idle"]
  /\ got = [r \in HttpRequests |-> 0]
  /\ attempts = <<>>
  /\ sawFailure = [r \in HttpRequests |-> FALSE]

Init ==
  /\ source \in Sources
  /\ repoState = "unbuilt"
  /\ _products = <<>>
  /\ initError = NoError
  /\ call = NoCall
  /\ repositoryCalls = <<>>
  /\ result = NoResult
  /\ DependenciesInit
  /\ response = NoResponse

\* JsonProductRepository.__init__
NewJsonProductRepository ==
  /\ repoState = "unbuilt"
  /\ \E generated \in GeneratedChoices :
       LET loaded == _load_products(source, generated)
       IN /\ _products' = loaded.index
          /\ initError' = loaded.error
          /\ repoState' = IF loaded.error = NoError THEN "ready" ELSE "failed"
  /\ UNCHANGED <<source, call, repositoryCalls, result>>
  /\ UNCHANGED <<depVars, response>>

\* ProductService.get_product_by_id
get_product_by_id ==
  /\ repoState = "ready"
  /\ \E product_id \in UUIDs :
       LET found == find_by_id(_products, product_id)
       IN /\ call' = [op |-> "get_product_by_id", product_ids |-> <<product_id>>]
          /\ repositoryCalls' = <<[method |-> "find_by_id", returned |-> found]>>
          /\ result' = get_product_by_id_result(product_id, found)
          /\ _products' = after_get(_products, product_id)
  /\ UNCHANGED <<source, repoState, initError>>
  /\ UNCHANGED depVars

\* ProductService.get_products_for_comparison
get_products_for_comparison ==
  /\ repoState = "ready"
  /\ \E product_ids \in SeqsUpTo(UUIDs, MaxRequest) :
       /\ call' = [op |-> "get_products_for_comparison",
                   product_ids |-> product_ids]
       /\ IF IsEmpty(product_ids)
          THEN /\ repositoryCalls' = <<>>
               /\ result' = Raises("ValueError",
                    <<"At least one product ID must be provided">>, <<>>)
          ELSE IF HasDuplicates(product_ids)
          THEN /\ repositoryCalls' = <<>>
               /\ result' = Raises("ValueError",
                    <<"Product IDs must be unique">>, <<>>)
          ELSE \E products \in PortFindByIds(_products, product_ids) :
                 \E iteration \in Orderings(missing_ids(product_ids, products)) :
                   /\ repositoryCalls' =
                        <<[method |-> "find_by_ids", returned |-> products]>>
                   /\ result' = compare_found(product_ids, products, iteration)
  /\ UNCHANGED <<source, repoState, _products, initError>>
  /\ UNCHANGED depVars

\* ProductService.get_all_products
get_all_products ==
  /\ repoState = "ready"
  /\ LET products == find_all(_products)
     IN /\ call' = [op |-> "get_all_products", product_ids |-> <<>>]
        /\ repositoryCalls' = <<[method |-> "find_all", returned |-> products]>>
        /\ result' = Returns(products)
  /\ UNCHANGED <<source, repoState, _products, initError>>
  /\ UNCHANGED depVars

\* ProductService.product_exists
product_exists ==
  /\ repoState = "ready"
  /\ \E product_id \in UUIDs :
       LET found == exists(_products, product_id)
       IN /\ call' = [op |-> "product_exists", product_ids |-> <<product_id>>]
          /\ repositoryCalls' = <<[method |-> "exists", returned |-> <<found>>]>>
          /\ result' = Returns(<<found>>)
  /\ UNCHANGED <<source, repoState, _products, initError>>
  /\ UNCHANGED depVars

\* ProductService.get_product_count
get_product_count ==
  /\ repoState = "ready"
  /\ LET n == count(_products)
     IN /\ call' = [op |-> "get_product_count", product_ids |-> <<>>]
        /\ repositoryCalls' = <<[method |-> "count", returned |-> <<n>>]>>
        /\ result' = Returns(<<n>>)
  /\ UNCHANGED <<source, repoState, _products, initError>>
  /\ UNCHANGED depVars

\* the service operations called directly, no HTTP request around them
call_get_product_by_id == get_product_by_id /\ UNCHANGED response

call_get_products_for_comparison ==
  get_products_for_comparison /\ UNCHANGED response

call_get_all_products == get_all_products /\ UNCHANGED response

call_product_exists == product_exists /\ UNCHANGED response

call_get_product_count == get_product_count /\ UNCHANGED response

Next ==
  \/ NewJsonProductRepository
  \/ call_get_product_by_id
  \/ call_get_products_for_comparison
  \/ call_get_all_products
  \/ call_product_exists
  \/ call_get_product_count

Spec == Init /\ [][Next]_vars

\* JsonProductRepository.find_by_ids called on the store directly
repository_find_by_ids ==
  /\ repoState = "ready"
  /\ \E product_ids \in SeqsUpTo(UUIDs, MaxRequest) :
       LET products == find_by_ids(_products, product_ids)
       IN /\ call' = [op |-> "find_by_ids", product_ids |-> product_ids]
          /\ repositoryCalls' =
               <<[method |-> "find_by_ids", returned |-> products]>>
          /\ result' = Returns(products)
  /\ UNCHANGED <<source, repoState, _products, initError>>
  /\ UNCHANGED <<depVars, response>>

NextRepository ==
  \/ NewJsonProductRepository
  \/ repository_find_by_ids

\* the store queried directly, without the service in front of it
SpecRepository == Init /\ [][NextRepository]_vars

\* ------------------------------------------------ service over the port
\* what an operation of a ProductRepositoryPort may raise instead of
\* returning ("RepositoryException: If data access fails"), and any other
\* exception of an implementation
NoFailure == [exc |-> "none", message |-> <<>>]

PortFailures ==
  {[exc |-> "RepositoryException", message |-> <<"data access failed">>],
   [exc |-> "KeyError", message |-> <<"key">>]}

\* a service method around its repository call: no method of ProductService
\* has a try statement, so what the repository raises leaves the method as
\* it is, and otherwise the method goes on to its own outcome
after_repository_call_swallowed(failure, outcome) == outcome

after_repository_call(failure, outcome) ==
  IF failure = NoFailure THEN outcome
  ELSE Raises(failure.exc, failure.message, <<>>)

\* ProductService.get_product_by_id over a repository that may fail
port_get_product_by_id ==
  /\ repoState = "ready"
  /\ \E product_id \in UUIDs, failure \in PortFailures \cup {NoFailure} :
       LET found == find_by_id(_products, product_id)
       IN /\ call' = [op |-> "get_product_by_id", product_ids |-> <<product_id>>]
          /\ repositoryCalls' = <<[method |-> "find_by_id", raised |-> failure]>>
          /\ result' = after_repository_call(failure,
                         get_product_by_id_result(product_id, found))
  /\ UNCHANGED <<source, repoState, _products, initError, depVars, response>>

\* ProductService.get_products_for_comparison over a repository that may fail
port_get_products_for_comparison ==
  /\ repoState = "ready"
  /\ \E product_ids \in SeqsUpTo(UUIDs, MaxRequest) :
       /\ call' = [op |-> "get_products_for_comparison",
                   product_ids |-> product_ids]
       /\ IF IsEmpty(product_ids)
          THEN /\ repositoryCalls' = <<>>
               /\ result' = Raises("ValueError",
                    <<"At least one product ID must be provided">>, <<>>)
          ELSE IF HasDuplicates(product_ids)
          THEN /\ repositoryCalls' = <<>>
               /\ result' = Raises("ValueError",
                    <<"Product IDs must be unique">>, <<>>)
          ELSE LET products == find_by_ids(_products, product_ids)
                   missing  == Orderings(missing_ids(product_ids, products))
               IN \/ \E iteration \in missing :
                       /\ repositoryCalls' =
                            <<[method |-> "find_by_ids", raised |-> NoFailure]>>
                       /\ result' = after_repository_call(NoFailure,
                            compare_found(product_ids, products, iteration))
                  \/ \E failure \in PortFailures :
                       /\ repositoryCalls' =
                            <<[method |-> "find_by_ids", raised |-> failure]>>
                       /\ result' = after_repository_call(failure,
                            compare_found(product_ids, products,
                                          CHOOSE iteration \in missing : TRUE))
  /\ UNCHANGED <<source, repoState, _products, initError, depVars, response>>

\* ProductService.get_all_products over a repository that may fail
port_get_all_products ==
  /\ repoState = "ready"
  /\ \E failure \in PortFailures \cup {NoFailure} :
       /\ call' = [op |-> "get_all_products", product_ids |-> <<>>]
       /\ repositoryCalls' = <<[method |-> "find_all", raised |-> failure]>>
       /\ result' = after_repository_call(failure,
                      Returns(find_all(_products)))
  /\ UNCHANGED <<source, repoState, _products, initError, depVars, response>>

\* ProductService.product_exists over a repository that may fail
port_product_exists ==
  /\ repoState = "ready"
  /\ \E product_id \in UUIDs, failure \in PortFailures \cup {NoFailure} :
       /\ call' = [op |-> "product_exists", product_ids |-> <<product_id>>]
       /\ repositoryCalls' = <<[method |-> "exists", raised |-> failure]>>
       /\ result' = after_repository_call(failure,
                      Returns(<<exists(_products, product_id)>>))
  /\ UNCHANGED <<source, repoState, _products, initError, depVars, response>>

\* ProductService.get_product_count over a repository that may fail
port_get_product_count ==
  /\ repoState = "ready"
  /\ \E failure \in PortFailures \cup {NoFailure} :
       /\ call' = [op |-> "get_product_count", product_ids |-> <<>>]
       /\ repositoryCalls' = <<[method |-> "count", raised |-> failure]>>
       /\ result' = after_repository_call(failure,
                      Returns(<<count(_products)>>))
  /\ UNCHANGED <<source, repoState, _products, initError, depVars, response>>

NextPort ==
  \/ NewJsonProductRepository
  \/ port_get_product_by_id
  \/ port_get_products_for_comparison
  \/ port_get_all_products
  \/ port_product_exists
  \/ port_get_product_count

\* the service over a repository whose operations may raise
SpecPort == Init /\ [][NextPort]_vars

\* ------------------------------------------------------- dependencies
\* get_product_repository, the lru_cache wrapper's lookup: a hit returns the
\* cached instance, a miss goes on to call the wrapped function
get_product_repository_lookup(r) ==
  /\ pc[r] = "idle"
  /\ IF cache # <<>>
     THEN /\ pc' = [pc EXCEPT ![r] = "done"]
          /\ got' = [got EXCEPT ![r] = cache[1]]
          /\ UNCHANGED sawFailure
     ELSE /\ pc' = [pc EXCEPT ![r] = "calling"]
          /\ sawFailure' = [sawFailure EXCEPT ![r] =
               \E n \in 1..Len(attempts) : attempts[n].error # "none"]
          /\ UNCHANGED got
  /\ UNCHANGED <<cache, attempts>>
  /\ UNCHANGED <<source, repoState, _products, initError, call,
                 repositoryCalls, result, response>>

\* what the wrapper stores once the wrapped function has returned instance:
\* nothing when the key was added to the cache in the meantime
cache_store(cached, instance) ==
  IF cached = <<>> THEN <<instance>> ELSE cached

\* get_product_repository, the wrapped function and the wrapper's store:
\* JsonProductRepository(path) is constructed; its exception leaves the
\* cache as it is, its instance is stored and returned to this caller
get_product_repository_call(r) ==
  /\ pc[r] = "calling"
  /\ \E generated \in GeneratedChoices :
       LET loaded   == _load_products(source, generated)
           instance == Len(attempts) + 1
       IN /\ attempts' = Append(attempts,
               [error |-> loaded.error.type, index |-> loaded.index,
                after_failure |-> sawFailure[r]])
          /\ IF loaded.error = NoError
             THEN /\ got' = [got EXCEPT ![r] = instance]
                  /\ cache' = cache_store(cache, instance)
             ELSE /\ got' = [got EXCEPT ![r] = -1]
                  /\ cache' = cache
  /\ pc' = [pc EXCEPT ![r] = "done"]
  /\ UNCHANGED sawFailure
  /\ UNCHANGED <<source, repoState, _products, initError, call,
                 repositoryCalls, result, response>>

NextDependencies ==
  \/ \E r \in HttpRequests : get_product_repository_lookup(r)
  \/ \E r \in HttpRequests : get_product_repository_call(r)

\* HTTP requests resolving the repository dependency, each in its own
\* threadpool thread
SpecDependencies == Init /\ [][NextDependencies]_vars

\* JsonProductRepository(path) constructed once more from the same source:
\* by another worker process, after a restart, or per request as the
\* dependency override of the tests does
AnotherJsonProductRepository ==
  /\ Len(attempts) < MaxInstances
  /\ \E generated \in GeneratedChoices :
       LET loaded == _load_products(source, generated)
       IN attempts' = Append(attempts,
            [error |-> loaded.error.type, index |-> loaded.index,
             after_failure |-> FALSE])
  /\ UNCHANGED <<cache, pc, got, sawFailure, response>>
  /\ UNCHANGED <<source, repoState, _products, initError, call,
                 repositoryCalls, result>>

NextInstances == AnotherJsonProductRepository

\* several stores built from one unchanged source
SpecInstances == Init /\ [][NextInstances]_vars

\* ------------------------------------------------- exception handlers
\* the base classes of each exception class, most specific first
\* (type(exc).__mro__ up to Exception)
mro(exc) ==
  CASE exc = "ProductNotFoundException" ->
         <<"ProductNotFoundException", "DomainException", "Exception">>
    [] exc = "ProductValidationException" ->
         <<"ProductValidationException", "DomainException", "Exception">>
    [] exc = "InvalidProductDataException" ->
         <<"InvalidProductDataException", "DomainException", "Exception">>
    [] exc = "RepositoryException" ->
         <<"RepositoryException", "DomainException", "Exception">>
    [] exc = "DomainException" -> <<"DomainException", "Exception">>
    [] exc = "ValueError" -> <<"ValueError", "Exception">>
    [] exc = "KeyError" -> <<"KeyError", "LookupError", "Exception">>
    [] OTHER -> <<exc, "Exception">>

EXCEPTION_HANDLERS ==
  [ProductNotFoundException    |-> "product_not_found_exception_handler",
   ProductValidationException  |-> "product_validation_exception_handler",
   InvalidProductDataException |-> "invalid_product_data_exception_handler",
   RepositoryException         |-> "repository_exception_handler",
   DomainException             |-> "domain_exception_handler",
   ValueError                  |-> "value_error_exception_handler"]

\* the handler the application runs for exc after create_application has
\* registered EXCEPTION_HANDLERS: that of the first class of the exception's
\* bases, most specific first, that has one; "none" when no class has
exception_handler_most_general(exc) ==
  LET bases == mro(exc)
      hits  == {i \in 1..Len(bases) : bases[i] \in DOMAIN EXCEPTION_HANDLERS}
  IN IF hits = {} THEN "none"
     ELSE EXCEPTION_HANDLERS[
            bases[CHOOSE i \in hits : \A j \in hits : i >= j]]

exception_handler(exc) ==
  LET bases == mro(exc)
      hits  == {i \in 1..Len(bases) : bases[i] \in DOMAIN EXCEPTION_HANDLERS}
  IN IF hits = {} THEN "none"
     ELSE EXCEPTION_HANDLERS[
            bases[CHOOSE i \in hits : \A j \in hits : i <= j]]

\* status_code each handler passes to create_error_response; an exception
\* without a handler ends as the server's 500
handler_status_code(handler) ==
  CASE handler = "product_not_found_exception_handler"    -> 404
    [] handler = "product_validation_exception_handler"   -> 400
    [] handler = "invalid_product_data_exception_handler" -> 500
    [] handler = "repository_exception_handler"           -> 500
    [] handler = "domain_exception_handler"               -> 500
    [] handler = "value_error_exception_handler"          -> 400
    [] OTHER                                              -> 500

\* status code of the response to a request in which exc was raised
response_status_code(exc) == handler_status_code(exception_handler(exc))

\* ---------------------------------------------------------------- routes
\* float(Decimal): the value, free of trailing fractional zeroes
RECURSIVE DecimalToFloat(_)
DecimalToFloat(price) ==
  IF price.places > 0 /\ price.coefficient % 10 = 0
  THEN DecimalToFloat([price EXCEPT !.coefficient = @ \div 10,
                                    !.places = @ - 1])
  ELSE price

\* str(HttpUrl)
UrlStr(url) ==
  <<url.scheme, "://">> \o url.host \o (IF url.path = <<>> THEN <<"/">> ELSE url.path)

\* ProductResponse.from_product
from_product(product) ==
  [id             |-> UuidStr(product.id),
   name           |-> product.name,
   image_url      |-> UrlStr(product.image_url),
   description    |-> product.description,
   price          |-> DecimalToFloat(product.price),
   rating         |-> product.rating,
   specifications |-> product.specifications,
   currency       |-> product.currency]

\* body of GET /products for what the service returned
route_get_all_products(products) ==
  [i \in 1..Len(products) |-> from_product(products[i])]

\* body of GET /products/{product_id} for what the service returned
route_get_product_by_id_price_as_stored(product) ==
  [from_product(product) EXCEPT !.price = product.price]

route_get_product_by_id(product) == from_product(product)

\* body of GET /products/compare/batch for what the service returned
route_get_products_for_comparison(products) ==
  [i \in 1..Len(products) |-> from_product(products[i])]

\* body of GET /products/health/count for what the service returned
route_get_product_count(n) == [count |-> n, status |-> "healthy"]

\* ------------------------------------------------------------ requests
\* create_error_response: "details" is part of the content only when truthy
create_error_response(status_code, error_type, message, details) ==
  [request |-> "none", status_code |-> status_code, body |-> <<>>,
   error |-> [type |-> error_type, message |-> message, details |-> details]]

\* the response the handler builds for an exception with this message and,
\* for ProductNotFoundException, this product_id attribute; an exception
\* no handler is registered for ends as the server's plain 500
run_exception_handler_echo_message(handler, message, product_id) ==
  CASE handler = "product_not_found_exception_handler" ->
         create_error_response(handler_status_code(handler),
           "ProductNotFound", message, <<[product_id |-> product_id]>>)
    [] handler = "product_validation_exception_handler" ->
         create_error_response(handler_status_code(handler),
           "ProductValidation", message, <<>>)
    [] handler = "invalid_product_data_exception_handler" ->
         create_error_response(handler_status_code(handler),
           "InvalidProductData", message, <<>>)
    [] handler = "repository_exception_handler" ->
         create_error_response(handler_status_code(handler),
           "RepositoryError", message, <<>>)
    [] handler = "domain_exception_handler" ->
         create_error_response(handler_status_code(handler),
           "DomainError", message, <<>>)
    [] handler = "value_error_exception_handler" ->
         create_error_response(handler_status_code(handler),
           "ValidationError", message, <<>>)
    [] OTHER ->
         create_error_response(handler_status_code(handler),
           "none", <<"Internal Server Error">>, <<>>)

run_exception_handler(handler, message, product_id) ==
  CASE handler = "product_not_found_exception_handler" ->
         create_error_response(handler_status_code(handler),
           "ProductNotFound", message, <<[product_id |-> product_id]>>)
    [] handler = "product_validation_exception_handler" ->
         create_error_response(handler_status_code(handler),
           "ProductValidation", message, <<>>)
    [] handler = "invalid_product_data_exception_handler" ->
         create_error_response(handler_status_code(handler),
           "InvalidProductData",
           <<"An error occurred while processing product data">>, <<>>)
    [] handler = "repository_exception_handler" ->
         create_error_response(handler_status_code(handler),
           "RepositoryError",
           <<"An error occurred while accessing data">>, <<>>)
    [] handler = "domain_exception_handler" ->
         create_error_response(handler_status_code(handler),
           "DomainError", <<"An unexpected error occurred">>, <<>>)
    [] handler = "value_error_exception_handler" ->
         create_error_response(handler_status_code(handler),
           "ValidationError", message, <<>>)
    [] OTHER ->
         create_error_response(handler_status_code(handler),
           "none", <<"Internal Server Error">>, <<>>)

\* the response to a request during which this exception was raised
exception_response(exc, message, product_id) ==
  run_exception_handler(exception_handler(exc), message, product_id)

\* the response to a request whose service call ended as res; body is the
\* content of the 200 response when it returned
service_response(request, res, body) ==
  [(IF res.kind = "raise"
    THEN exception_response(res.exc, res.message, res.product_id)
    ELSE [NoResponse EXCEPT !.status_code = 200, !.body = body])
   EXCEPT !.request = request]

\* Depends(get_product_service) of a route when constructing the repository
\* raises: the exception of the load is answered by its handler and the
\* route function is not called
dependency_raises(request) ==
  /\ repoState = "failed"
  /\ response' = [exception_response(initError.type, initError.message, <<>>)
                    EXCEPT !.request = request]
  /\ UNCHANGED <<source, repoState, _products, initError, call,
                 repositoryCalls, result, depVars>>

\* GET /products
http_get_all_products ==
  \/ dependency_raises("GET /products")
  \/ /\ get_all_products
     /\ response' = service_response("GET /products", result',
                      route_get_all_products(result'.value))

\* GET /products/{product_id}
http_get_product_by_id ==
  \/ dependency_raises("GET /products/{product_id}")
  \/ /\ get_product_by_id
     /\ response' = service_response("GET /products/{product_id}", result',
                      <<route_get_product_by_id(result'.value[1])>>)

\* the request parameter product_ids: List[UUID] = Query(..., min_length=1)
\* of GET /products/compare/batch: a query string without product_ids does
\* not validate and the request is answered before the route function runs
product_ids_required(request) ==
  [request |-> request, status_code |-> 422, body |-> <<>>,
   error |-> [type |-> "missing", message |-> <<"Field required">>,
              details |-> <<>>]]

\* GET /products/compare/batch
http_get_products_for_comparison ==
  \/ dependency_raises("GET /products/compare/batch")
  \/ /\ repoState = "ready"
     /\ call' = [op |-> "none", product_ids |-> <<>>]
     /\ repositoryCalls' = <<>>
     /\ result' = NoResult
     /\ response' = product_ids_required("GET /products/compare/batch")
     /\ UNCHANGED <<source, repoState, _products, initError, depVars>>
  \/ /\ get_products_for_comparison
     /\ call'.product_ids # <<>>
     /\ response' = service_response("GET /products/compare/batch", result',
                      route_get_products_for_comparison(result'.value))

\* GET /products/health/count
http_get_product_count ==
  \/ dependency_raises("GET /products/health/count")
  \/ /\ get_product_count
     /\ response' = service_response("GET /products/health/count", result',
                      <<route_get_product_count(result'.value[1])>>)

NextHttp ==
  \/ NewJsonProductRepository
  \/ http_get_all_products
  \/ http_get_product_by_id
  \/ http_get_products_for_comparison
  \/ http_get_product_count

\* the service behind the API routes
SpecHttp == Init /\ [][NextHttp]_vars

\* the load alone, on sources built from the records at the limits of the
\* field constraints
InitLoad ==
  /\ source \in LoadSources
  /\ repoState = "unbuilt"
  /\ _products = <<>>
  /\ initError = NoError
  /\ call = NoCall
  /\ repositoryCalls = <<>>
  /\ result = NoResult
  /\ DependenciesInit
  /\ response = NoResponse

NextLoad == NewJsonProductRepository

SpecLoad == InitLoad /\ [][NextLoad]_vars

\* =================================================================== claims
\* identifiers the store holds
StoreIds == {_products[i].id : i \in 1..Len(_products)}

NoRepeats(ids) == \A i, j \in 1..Len(ids) : ids[i] = ids[j] => i = j

IsComparison == call.op = "get_products_for_comparison"

\* identifiers whose text occurs in an exception message
NamedIn(message) == {u \in UUIDs : UuidStr(u) \in Range(message)}

\* the identifiers an exception message lists, in the order it lists them
ListedIn(message) ==
  LET at == {i \in 1..Len(message) : \E u \in UUIDs : UuidStr(u) = message[i]}
      nth(k) == CHOOSE i \in at : Cardinality({j \in at : j < i}) = k - 1
  IN [k \in 1..Cardinality(at) |->
        CHOOSE u \in UUIDs : UuidStr(u) = message[nth(k)]]

\* positions of the source's products array that hold a well-formed record
WellFormedAt == {i \in 1..Len(source.products) :
                   ElementOutcome(source.products[i]) = "ok"}

\* C1: a batch request that is non-empty, free of repeats and names only
\* stored identifiers returns exactly len(ids) products, the i-th carrying
\* ids[i], whatever order the repository answered in.
C1_RequestOrder ==
  (/\ IsComparison
   /\ call.product_ids # <<>>
   /\ NoRepeats(call.product_ids)
   /\ Range(call.product_ids) \subseteq StoreIds)
  => /\ result.kind = "return"
     /\ Len(result.value) = Len(call.product_ids)
     /\ \A i \in 1..Len(call.product_ids) :
          result.value[i].id = call.product_ids[i]

\* a two-product request the repository answered in the opposite order
C1_Witness ==
  /\ IsComparison
  /\ Len(call.product_ids) = 2
  /\ result.kind = "return"
  /\ Len(repositoryCalls) = 1
  /\ Len(repositoryCalls[1].returned) = 2
  /\ repositoryCalls[1].returned[1].id = call.product_ids[2]
  /\ repositoryCalls[1].returned[2].id = call.product_ids[1]

\* C2: a batch request that passes the shape checks and names at least one
\* identifier absent from the store fails with ProductNotFoundException and
\* returns no product at all.
C2_AllOrNothing ==
  (/\ IsComparison
   /\ call.product_ids # <<>>
   /\ NoRepeats(call.product_ids)
   /\ \E i \in 1..Len(call.product_ids) : call.product_ids[i] \notin StoreIds)
  => /\ result.kind = "raise"
     /\ result.exc = "ProductNotFoundException"
     /\ result.value = <<>>

\* a request naming a stored identifier first and an absent one after it
C2_Witness ==
  /\ IsComparison
  /\ Len(call.product_ids) = 2
  /\ call.product_ids[1] \in StoreIds
  /\ call.product_ids[2] \notin StoreIds
  /\ result.exc = "ProductNotFoundException"

\* C3: for a source whose top-level shape is valid the constructor completes
\* whatever is wrong with single elements of the products array, and every
\* well-formed element is indexed.
C3_PerRecordIsolation ==
  (source.kind = "ok" /\ repoState # "unbuilt")
  => /\ repoState = "ready"
     /\ \A i \in WellFormedAt :
          source.products[i].id # <<>> => source.products[i].id[1] \in StoreIds

\* C4: a source of N well-formed and M malformed records yields a store
\* whose count() is N.  Stated for sources whose well-formed records carry
\* pairwise distinct identifiers, so that each of the N has its own key.
C4_CountIsWellFormed ==
  (/\ source.kind = "ok"
   /\ repoState # "unbuilt"
   /\ \A i, j \in WellFormedAt :
        (/\ i # j
         /\ source.products[i].id # <<>>
         /\ source.products[j].id # <<>>)
        => source.products[i].id # source.products[j].id)
  => /\ repoState = "ready"
     /\ Len(_products) = Cardinality(WellFormedAt)

\* C5: get_products_for_comparison([]) fails with ValueError for every store
\* content.
C5_EmptyRejected ==
  (IsComparison /\ call.product_ids = <<>>)
  => (result.kind = "raise" /\ result.exc = "ValueError")

\* the empty request made against a store that holds products
C5_Witness ==
  /\ IsComparison
  /\ call.product_ids = <<>>
  /\ result.exc = "ValueError"
  /\ _products # <<>>

\* C6: a batch request in which some identifier occurs more than once fails
\* with ValueError, whether or not its identifiers are stored.
C6_DuplicatesRejected ==
  (IsComparison /\ ~NoRepeats(call.product_ids))
  => (result.kind = "raise" /\ result.exc = "ValueError")

\* a request repeating an identifier the store holds
C6_Witness ==
  /\ IsComparison
  /\ Len(call.product_ids) = 2
  /\ call.product_ids[1] = call.product_ids[2]
  /\ call.product_ids[1] \in StoreIds
  /\ result.exc = "ValueError"

\* C7: the message of the NotFound failure of a batch request lists the
\* missing identifiers in sorted order.
C7_SortedMessage ==
  (IsComparison /\ result.exc = "ProductNotFoundException")
  => LET listed == ListedIn(result.message)
     IN \A i, j \in 1..Len(listed) : i < j => listed[i] < listed[j]

\* C8: the NotFound failure of a batch request names every requested
\* identifier that is absent from the store and no requested identifier that
\* is present.
C8_NamesExactlyMissing ==
  (IsComparison /\ result.exc = "ProductNotFoundException")
  => /\ NamedIn(result.message) = Range(call.product_ids) \ StoreIds
     /\ NamedIn(result.product_id) = Range(call.product_ids) \ StoreIds

\* a failed request that named a stored identifier as well as an absent one
C8_Witness ==
  /\ IsComparison
  /\ result.exc = "ProductNotFoundException"
  /\ Range(call.product_ids) \cap StoreIds # {}
  /\ Range(call.product_ids) \ StoreIds # {}

\* C9: get_product_by_id(id) returns the product indexed under id when the
\* store holds it, and otherwise fails with ProductNotFoundException whose
\* product_id and message carry exactly the requested identifier.
C9_GetById ==
  (call.op = "get_product_by_id")
  => LET id == call.product_ids[1]
     IN IF id \in StoreIds
        THEN /\ result.kind = "return"
             /\ Len(result.value) = 1
             /\ result.value[1].id = id
             /\ \E j \in 1..Len(_products) : _products[j] = result.value[1]
        ELSE /\ result.kind = "raise"
             /\ result.exc = "ProductNotFoundException"
             /\ result.product_id = <<UuidStr(id)>>
             /\ result.message =
                  <<"Product with ID '", UuidStr(id), "' not found">>

\* a lookup of a stored identifier that is not the first entry of the index
C9_Witness ==
  /\ call.op = "get_product_by_id"
  /\ result.kind = "return"
  /\ Len(_products) = 2
  /\ _products[2].id = call.product_ids[1]

\* C10: when several well-formed records carry the same identifier, the
\* store holds exactly one product for it: the one built from the last such
\* record in source order.
C10_LastWriteWins ==
  (repoState = "ready")
  => \A id \in SourceIds :
       LET at == {i \in WellFormedAt : source.products[i].id = <<id>>}
       IN at # {} =>
            LET last == CHOOSE i \in at : \A k \in at : k <= i
                held == {j \in 1..Len(_products) : _products[j].id = id}
            IN /\ Cardinality(held) = 1
               /\ \A j \in held :
                    _products[j].name = source.products[last].name[1]

\* a store loaded from two well-formed records that share their identifier
\* and differ in content
C10_Witness ==
  /\ repoState = "ready"
  /\ Len(source.products) = 2
  /\ WellFormedAt = {1, 2}
  /\ source.products[1].id # <<>>
  /\ source.products[1].id = source.products[2].id
  /\ source.products[1].name # source.products[2].name

\* C11: constructing the store fails with RepositoryException, never with
\* InvalidProductDataException, when the source file does not exist or its
\* content is not parsable JSON.
C11_UnavailableIsRepositoryException ==
  (source.kind \in {"missing", "unparsable"} /\ repoState # "unbuilt")
  => (repoState = "failed" /\ initError.type = "RepositoryException")

\* the constructor has run on a file whose content is not JSON
C11_Witness ==
  /\ source.kind = "unparsable"
  /\ repoState = "failed"
  /\ initError.type = "RepositoryException"

\* C12: constructing the store fails with InvalidProductDataException, not
\* with the generic RepositoryException, when the source parses but its top
\* level is not an object, lacks 'products', or holds a 'products' value that
\* is not a sequence.
C12_BadShapeIsInvalidData ==
  (/\ source.kind \in {"not_object", "no_products_key", "products_not_list"}
   /\ repoState # "unbuilt")
  => (repoState = "failed" /\ initError.type = "InvalidProductDataException")

\* the constructor has run on a source whose 'products' is not an array
C12_Witness ==
  /\ source.kind = "products_not_list"
  /\ repoState = "failed"
  /\ initError.type = "InvalidProductDataException"

RECURSIVE PowerOfTen(_)
PowerOfTen(n) == IF n = 0 THEN 1 ELSE 10 * PowerOfTen(n - 1)

UppercaseLetters ==
  {"A", "B", "C", "D", "E", "F", "G", "H", "I", "J", "K", "L", "M",
   "N", "O", "P", "Q", "R", "S", "T", "U", "V", "W", "X", "Y", "Z"}

C14_CurrencyThreeUppercaseLetters ==
  (repoState = "ready")
  => \A j \in 1..Len(_products) :
       /\ Len(_products[j].currency) = 3
       /\ \A i \in 1..Len(_products[j].currency) :
            _products[j].currency[i] \in UppercaseLetters

\* C15: after a successful load count() equals the length of find_all(), the
\* service's get_product_count() the length of get_all_products(), and the
\* count endpoint's count the length of the list endpoint's body.
C15_CountMatchesFindAll ==
  (repoState = "ready")
  => /\ count(_products) = Len(find_all(_products))
     /\ (call.op = "get_product_count")
          => /\ result.value = <<Len(find_all(_products))>>
             /\ route_get_product_count(result.value[1]).count
                  = Len(route_get_all_products(find_all(_products)))
     /\ (call.op = "get_all_products")
          => /\ Len(result.value) = count(_products)
             /\ Len(route_get_all_products(result.value)) = count(_products)

\* the count asked of a store loaded from two well-formed records that share
\* their identifier
C15_Witness ==
  /\ call.op = "get_product_count"
  /\ result.value = <<1>>
  /\ Len(source.products) = 2
  /\ WellFormedAt = {1, 2}

\* C16: find_by_ids never fails for an unknown identifier: it returns, in
\* request order, the product of each position of ids whose identifier is in
\* the index and omits the other positions.
C16_FindByIdsFilters ==
  (call.op = "find_by_ids")
  => LET ids     == call.product_ids
         present == {i \in 1..Len(ids) : ids[i] \in StoreIds}
         nth(k)  == CHOOSE i \in present :
                      Cardinality({j \in present : j < i}) = k - 1
     IN /\ result.kind = "return"
        /\ Len(result.value) = Cardinality(present)
        /\ \A k \in 1..Cardinality(present) :
             /\ result.value[k].id = ids[nth(k)]
             /\ \E j \in 1..Len(_products) : _products[j] = result.value[k]

\* a request naming a stored identifier second, after an unknown one, in a
\* store whose first entry is another product
C16_Witness ==
  /\ call.op = "find_by_ids"
  /\ Len(call.product_ids) = 2
  /\ call.product_ids[1] \notin StoreIds
  /\ Len(_products) = 2
  /\ call.product_ids[2] = _products[2].id
  /\ Len(result.value) = 1

\* C17: no query changes the index: once the constructor has returned, every
\* step leaves the identifier-to-product mapping as it was.
C17_QueriesLeaveIndex ==
  [][repoState = "ready" => _products' = _products]_vars

\* a failed query against a store that holds products
C17_Witness ==
  /\ repoState = "ready"
  /\ result.kind = "raise"
  /\ call.op = "get_product_by_id"
  /\ _products # <<>>

\* C18: when several requests call get_product_repository concurrently before
\* any call has completed, the store is constructed exactly once and every
\* caller receives the same instance.
C18_ConstructedOnce ==
  /\ Cardinality({n \in 1..Len(attempts) : attempts[n].error = "none"}) <= 1
  /\ \A r1, r2 \in HttpRequests :
       (got[r1] > 0 /\ got[r2] > 0) => got[r1] = got[r2]

\* C19: a failed load is never retried: once constructing the store has
\* failed, no later request causes another attempt to load the source.
C19_NoRetryAfterFailure ==
  \A n \in 1..Len(attempts) : ~attempts[n].after_failure

\* the status code the error kinds are to be translated to
StatusOfKind(exc) ==
  CASE exc = "ProductNotFoundException" -> 404
    [] exc = "ValueError" -> 400
    [] OTHER -> 500

\* C20: every failure leaving the core is translated to the status code of
\* its own kind: ProductNotFoundException to 404, the invalid-request
\* ValueError to 400, RepositoryException, InvalidProductDataException and
\* any other DomainException to 500; the specific handler wins over the
\* DomainException catch-all.
C20_EachKindItsStatus ==
  /\ result.kind = "raise" =>
       response_status_code(result.exc) = StatusOfKind(result.exc)
  /\ initError # NoError =>
       /\ initError.type \in {"RepositoryException",
                              "InvalidProductDataException"}
       /\ response_status_code(initError.type) = 500

\* a lookup has failed with ProductNotFoundException, itself a DomainException
C20_Witness ==
  /\ result.kind = "raise"
  /\ result.exc = "ProductNotFoundException"
  /\ "DomainException" \in Range(mro(result.exc))

\* C21: a request to the batch comparison endpoint that carries no
\* product_ids at all is answered with 400 Bad Request.
C21_NoProductIdsIs400 ==
  (/\ repoState = "ready"
   /\ response.request = "GET /products/compare/batch"
   /\ call.product_ids = <<>>)
    => response.status_code = 400

\* C22: when a batch comparison request names identifiers that are not in
\* the store, the message of the resulting ProductNotFoundException and of
\* the 404 body built from it is "Products not found: " followed by the
\* comma-separated missing identifiers, with nothing wrapped around it.
C22_BatchMessageUnwrapped ==
  (/\ response.request = "GET /products/compare/batch"
   /\ response.status_code = 404)
    => \E iteration \in Orderings(Range(call.product_ids) \ StoreIds) :
         LET text == <<"Products not found: ">>
                       \o Join([i \in 1..Len(iteration) |->
                                  UuidStr(iteration[i])], ", ")
         IN /\ result.message = text
            /\ response.error.message = text

\* C23: any failure raised by a repository operation reaches the caller of
\* the service operation as the same error of the same kind: the service
\* neither swallows it, nor converts it to ProductNotFoundException or
\* ValueError, nor returns a result.
C23_RepositoryFailurePropagates ==
  \A i \in 1..Len(repositoryCalls) :
    repositoryCalls[i].raised # NoFailure =>
      /\ result.kind = "raise"
      /\ result.exc = repositoryCalls[i].raised.exc
      /\ result.message = repositoryCalls[i].raised.message

\* find_by_ids has raised RepositoryException for a batch naming an
\* identifier that is not in the store
C23_Witness ==
  /\ call.op = "get_products_for_comparison"
  /\ Range(call.product_ids) \ StoreIds # {}
  /\ Len(repositoryCalls) = 1
  /\ repositoryCalls[1].raised.exc = "RepositoryException"
  /\ result.exc = "RepositoryException"

\* a source holding one well-formed record without id, specifications and
\* currency has been loaded
MinimalRecordLoaded ==
  /\ source.kind = "ok"
  /\ Len(source.products) = 1
  /\ ElementOutcome(source.products[1]) = "ok"
  /\ source.products[1].id = <<>>
  /\ source.products[1].specifications = <<>>
  /\ source.products[1].currency = <<>>
  /\ repoState = "ready"

\* C24: a record that omits currency, specifications and id is loaded with
\* currency "USD", an empty specifications mapping and a generated
\* identifier under which it is indexed: the store of a source holding one
\* such record has count() = 1 and get_product_by_id of that identifier
\* returns it.
C24_DefaultsOfMinimalRecord ==
  MinimalRecordLoaded =>
    /\ count(_products) = 1
    /\ Len(find_all(_products)) = 1
    /\ LET product == find_all(_products)[1]
       IN /\ product.currency = <<"U", "S", "D">>
          /\ product.specifications = {}
          /\ product.id \in GenIds
          /\ product.name = source.products[1].name[1]
          /\ find_by_id(_products, product.id) = <<product>>
          /\ (/\ call.op = "get_product_by_id"
              /\ call.product_ids = <<product.id>>)
               => result = Returns(<<product>>)

C24_Witness ==
  /\ MinimalRecordLoaded
  /\ call.op = "get_product_by_id"
  /\ Len(_products) = 1
  /\ call.product_ids = <<_products[1].id>>
  /\ result.kind = "return"

\* C25: find_all() returns every indexed product exactly once and in the
\* same order on every call between loads, whatever queries are made in
\* between: no step of a loaded store changes what find_all returns, and
\* the list a call returns is that list.
C25_FindAllStable ==
  [][repoState = "ready" =>
       /\ find_all(_products') = find_all(_products)
       /\ call'.op = "get_all_products" =>
            /\ result'.kind = "return"
            /\ result'.value = find_all(_products)
            /\ \A k \in UUIDs :
                 Cardinality({i \in 1..Len(result'.value) :
                                result'.value[i].id = k})
                   = (IF exists(_products, k) THEN 1 ELSE 0)]_vars

\* get_all_products has returned the two products of the store
C25_Witness ==
  /\ call.op = "get_all_products"
  /\ Len(result.value) = 2
  /\ result.value = find_all(_products)

\* C26: the same product has an identical representation whichever way it
\* is retrieved: the result of the single lookup by its identifier and the
\* element returned by a batch comparison naming only that identifier equal,
\* field for field, the element the list operation returns for it.
C26_SameRepresentation ==
  (/\ response.status_code = 200
   /\ response.request \in {"GET /products/{product_id}",
                            "GET /products/compare/batch"}
   /\ Len(call.product_ids) = 1)
    => LET listed == route_get_all_products(find_all(_products))
           at     == {i \in 1..Len(listed) :
                        listed[i].id = UuidStr(call.product_ids[1])}
       IN /\ Cardinality(at) = 1
          /\ Len(response.body) = 1
          /\ \A i \in at : response.body[1] = listed[i]

\* a single lookup has returned a product stored with price 10.00
C26_Witness ==
  /\ response.status_code = 200
  /\ response.request = "GET /products/{product_id}"
  /\ Len(response.body) = 1
  /\ \E i \in 1..Len(_products) :
       /\ _products[i].id = call.product_ids[1]
       /\ _products[i].price # response.body[1].price

\* C27: shape validation precedes everything else in
\* get_products_for_comparison: for an empty sequence or one with a repeated
\* identifier find_by_ids is never called and the outcome is ValueError, even
\* when identifiers of the sequence are absent from the store; for a sequence
\* that passes the checks find_by_ids is called exactly once.
C27_ShapeChecksFirst ==
  IsComparison =>
    IF call.product_ids = <<>> \/ ~NoRepeats(call.product_ids)
    THEN /\ repositoryCalls = <<>>
         /\ result.kind = "raise"
         /\ result.exc = "ValueError"
    ELSE /\ Len(repositoryCalls) = 1
         /\ repositoryCalls[1].method = "find_by_ids"
         /\ result.exc # "ValueError"

\* a request repeating an identifier the store does not hold
C27_Witness ==
  /\ IsComparison
  /\ Len(call.product_ids) = 2
  /\ call.product_ids[1] = call.product_ids[2]
  /\ call.product_ids[1] \notin StoreIds
  /\ _products # <<>>
  /\ repositoryCalls = <<>>
  /\ result.exc = "ValueError"

C29_SameIdentifiers ==
  \A n, m \in 1..Len(attempts) :
    (attempts[n].error = "none" /\ attempts[m].error = "none") =>
      \A k \in UUIDs :
        exists(attempts[n].index, k) <=> exists(attempts[m].index, k)

\* the one body each kind of internal failure is answered with
GenericBody(exc) ==
  CASE exc = "RepositoryException" ->
         [type |-> "RepositoryError",
          message |-> <<"An error occurred while accessing data">>,
          details |-> <<>>]
    [] exc = "InvalidProductDataException" ->
         [type |-> "InvalidProductData",
          message |-> <<"An error occurred while processing product data">>,
          details |-> <<>>]
    [] OTHER ->
         [type |-> "DomainError",
          message |-> <<"An unexpected error occurred">>,
          details |-> <<>>]

\* C30: the body of every 500 response is independent of the internal
\* failure's message: for RepositoryException, InvalidProductDataException
\* and any other DomainException the response carries a fixed type and a
\* fixed generic message, so two failures of the same kind with different
\* messages produce identical bodies.
C30_GenericBodyOn500 ==
  response.status_code = 500 =>
    /\ initError # NoError
    /\ response.error = GenericBody(initError.type)
    /\ response.body = <<>>
    /\ Range(response.error.message) \cap Range(initError.message) = {}

\* the request was answered 500 because the data file does not exist
C30_Witness ==
  /\ response.status_code = 500
  /\ source.kind = "missing"
  /\ initError.type = "RepositoryException"
  /\ initError.message # <<>>

====
